---- MODULE Spec2Model ----
(***************************************************************************)
(* Model of architecture_aware_analyzer.py (Spring-Forge, dataset          *)
(* extraction): repository style detection, layer classification,         *)
(* dependency extraction, the violation rule engine, the dependency        *)
(* direction verdict, the per-file record and the batch loop of main.      *)
(*                                                                         *)
(* Text is modelled as a sequence of fragments (lines of Java, path        *)
(* segments); a regular-expression search or a substring test is the       *)
(* existence of a fragment that the expression matches.                    *)
(***************************************************************************)
EXTENDS Integers, Sequences, FiniteSets, TLC

VARIABLES
    \* detect_architecture_pattern
    repoName,       \* name of the repository directory below REPOS_DIR
    topEntries,     \* os.listdir(repo_path): names of the top-level entries
    indicators,     \* the indicator scores, style -> weight
    walkPc,         \* "dir": next directory of os.walk, "files": inside its file loop, "done"
    dirsWalked,     \* directories visited so far
    filesScanned,   \* files scanned so far
    archResult,     \* the value returned, or NoResult
    \* detect_architecture_violations
    vContent, vLayer, vArch, vDeps,   \* its four arguments
    vPc,            \* "call" before the call, "done" after
    vTrace,         \* the (violations, severity) pair after each rule evaluation
    vResult,        \* the (violations, severity) pair returned
    vPrimary,       \* the primary anti-pattern analyze_file takes from the result
    \* analyze_file
    fPath, fReadable, fRawOk, fContent, fArch, fConf,   \* arguments and environment
    fCc,            \* what cc_visit does with the content
    fPc,            \* "call" before the call, "done" after
    fLayer,         \* detect_layer's answer for the file, "none" before it is called
    fRow,           \* the row returned, or NoRow for None
    \* analyze_dependency_direction
    dLayer, dDeps, dArch,   \* its three arguments
    dPc,            \* "call" before the call, "done" after
    dResult,        \* the verdict returned
    \* analyze_dependencies
    aContent, aLayer,   \* its two arguments
    aPc,            \* "call" before the call, "done" after
    aDeps,          \* the counts returned
    \* main
    mExists,        \* os.path.exists(REPOS_DIR)
    mTree,          \* the files below REPOS_DIR, in the order os.walk meets them
    mPc,            \* "start", "detect", "collect", "analyze", "written", "returned"
    mReposLeft,     \* the repositories the loop of line 490 has not reached yet
    repo_architectures,     \* repository name -> (style, confidence)
    java_files,     \* the .java files collected by lines 506-510
    mIdx,           \* position of the loop of line 515 in java_files
    rows            \* the records collected so far

archVars == <<repoName, topEntries, indicators, walkPc, dirsWalked, filesScanned, archResult>>
violVars == <<vContent, vLayer, vArch, vDeps, vPc, vTrace, vResult, vPrimary>>
fileVars == <<fPath, fReadable, fRawOk, fContent, fArch, fConf, fCc, fPc, fLayer, fRow>>
dirVars == <<dLayer, dDeps, dArch, dPc, dResult>>
depVars == <<aContent, aLayer, aPc, aDeps>>
mainVars == <<mExists, mTree, mPc, mReposLeft, repo_architectures, java_files, mIdx, rows>>
vars == <<archVars, violVars, fileVars, dirVars, depVars, mainVars>>

-----------------------------------------------------------------------------
(* Bounds of the model *)

MaxDirs == 3        \* directories os.walk yields for one repository
MaxFiles == 2       \* files the walk scans in one repository
MaxDepth == 1       \* directory levels below the repository root
MaxLen == 2         \* lines of a content given to the style detection or the rules
MaxFileLen == 3     \* lines of a file given to analyze_file
MaxCount == 1       \* dependencies of one bucket given to analyze_dependency_direction
MaxBatch == 3       \* files below REPOS_DIR in one run of main

-----------------------------------------------------------------------------
(* Helpers *)

Abs(a) == IF a >= 0 THEN a ELSE -a

\* sequences over S of length at most n
SeqUpTo(S, n) == UNION {[1..k -> S] : k \in 0..n}

\* re.search(pattern, content): some fragment is one the pattern matches
Search(matching, content) == \E i \in 1..Len(content) : content[i] \in matching

NoResult == [style |-> "none", confidence |-> [num |-> 0, den |-> 1]]

-----------------------------------------------------------------------------
(* STEP 1: detect_architecture_pattern *)

REPOS_DIR == "repos"

Styles == <<"layered", "hexagonal", "clean_architecture", "mvc">>
StyleSet == {Styles[i] : i \in 1..Len(Styles)}

\* the directory names below a repository, and the repository names
DirSegs == {"src", "controller", "service", "dao", "model", "adapter", "support",
            "domain", "infrastructure", "usecase", "presenter", "interface_adapter"}
RepoNames == {"shop", "order-service"}

\* the vocabulary words (directory cues of the style detection, path words of the
\* layer detection) that the lower-cased path segment contains as substrings
WordsIn(seg) ==
    CASE seg = "interface_adapter" -> {"interface_adapter", "adapter"}
      [] seg = "support" -> {"port"}
      [] seg = "order-service" -> {"service"}
      [] seg = "RestAdapter.java" -> {"rest", "adapter"}
      [] seg \in {"src", "shop", "repos", "Order.java", "Stray.java", "notes.txt"} -> {}
      [] OTHER -> {seg}

\* x in path.lower(), for the words x of the vocabulary: no word holds a separator,
\* so a word is in the path exactly when it is in one of its segments
PathWords(path) == UNION {WordsIn(path[i]) : i \in 1..Len(path)}

\* lines of Java the content cues of the style detection tell apart
ArchFragments == {"interface OrderPort {", "class JpaAdapter implements OrderPort {",
                  "class PlaceOrderUseCase {", "interface OrderGateway {"}

PortInterfaceRe == {"interface OrderPort {"}                            \* interface\s+\w+Port\s*{
AdapterClassRe == {"class JpaAdapter implements OrderPort {"}           \* class\s+\w+Adapter\s+implements
UseCaseClassRe == {"class PlaceOrderUseCase {"}                         \* class\s+\w+UseCase
GatewayInterfaceRe == {"interface OrderGateway {"}                      \* interface\s+\w+Gateway

Bump(ind, style, w) == [ind EXCEPT ![style] = @ + w]
BumpIf(cond, ind, style, w) == IF cond THEN Bump(ind, style, w) ELSE ind

\* lines 30-48: the directory cues of one root
ScoreDir(ind, root, entries) ==
    LET c == PathWords(root)
        s1 == IF "controller" \in c THEN Bump(Bump(ind, "layered", 2), "mvc", 2) ELSE ind
        s2 == BumpIf("service" \in c, s1, "layered", 2)
        s3 == BumpIf("repository" \in c \/ "dao" \in c, s2, "layered", 2)
        s4 == BumpIf("entity" \in c \/ "model" \in c, s3, "layered", 1)
        s5 == BumpIf("adapter" \in c, s4, "hexagonal", 3)
        s6 == BumpIf("port" \in c, s5, "hexagonal", 3)
        s7 == BumpIf("domain" \in c /\ "adapter" \in entries, s6, "hexagonal", 2)
        s8 == BumpIf("infrastructure" \in c, s7, "hexagonal", 2)
        s9 == BumpIf("usecase" \in c, s8, "clean_architecture", 3)
        s10 == BumpIf("gateway" \in c, s9, "clean_architecture", 2)
        s11 == BumpIf("presenter" \in c, s10, "clean_architecture", 2)
    IN  BumpIf("interface_adapter" \in c, s11, "clean_architecture", 3)

\* lines 52-67: the content cues of one file; a file that is no .java file or cannot
\* be read leaves the scores as they are
ScoreFile(ind, file) ==
    IF ~file.java \/ ~file.readable THEN ind
    ELSE LET s1 == BumpIf(Search(PortInterfaceRe, file.content), ind, "hexagonal", 2)
             s2 == BumpIf(Search(AdapterClassRe, file.content), s1, "hexagonal", 2)
             s3 == BumpIf(Search(UseCaseClassRe, file.content), s2, "clean_architecture", 2)
         IN  BumpIf(Search(GatewayInterfaceRe, file.content), s3, "clean_architecture", 2)

RECURSIVE SumScores(_, _)
SumScores(ind, i) == IF i = 0 THEN 0 ELSE ind[Styles[i]] + SumScores(ind, i - 1)
TotalScore(ind) == SumScores(ind, Len(Styles))

\* max(indicators, key=indicators.get): the first style, in insertion order, of maximal score
MaxArch(ind) ==
    LET best == CHOOSE i \in 1..Len(Styles) :
                    /\ \A j \in 1..Len(Styles) : ind[Styles[j]] <= ind[Styles[i]]
                    /\ \A j \in 1..(i - 1) : ind[Styles[j]] < ind[Styles[i]]
    IN  Styles[best]

DefaultStyle == "layered"
\* a plausible slip: the default of main (line 519) in place of that of line 72
HalfConfidence == [num |-> 1, den |-> 2]
DefaultConfidence == [num |-> 3, den |-> 10]     \* 0.3
MvcTolerance == 2

\* a plausible slip: the confidence is taken from the style returned
DetermineArchitectureOwnScore(ind) ==
    LET total == TotalScore(ind)
        max_arch == MaxArch(ind)
        style == IF Abs(ind["layered"] - ind["mvc"]) <= MvcTolerance THEN "mvc" ELSE max_arch
    IN  IF total = 0 THEN [style |-> DefaultStyle, confidence |-> DefaultConfidence]
        ELSE [style |-> style, confidence |-> [num |-> ind[style], den |-> total]]

\* lines 69-81
DetermineArchitecture(ind) ==
    LET total == TotalScore(ind)
        max_arch == MaxArch(ind)
        confidence == [num |-> ind[max_arch], den |-> total]
    IN  IF total = 0 THEN [style |-> DefaultStyle, confidence |-> DefaultConfidence]
        ELSE IF Abs(ind["layered"] - ind["mvc"]) <= MvcTolerance
             THEN [style |-> "mvc", confidence |-> confidence]
             ELSE [style |-> max_arch, confidence |-> confidence]

ArchFileInputs ==
    [java : {TRUE}, readable : BOOLEAN, content : SeqUpTo(ArchFragments, MaxLen)]
        \cup {[java |-> FALSE, readable |-> TRUE, content |-> <<>>]}

\* one iteration of the os.walk loop up to its file loop: the repository's own
\* directory first, directories below it afterwards
WalkDir ==
    /\ walkPc = "dir"
    /\ dirsWalked < MaxDirs
    /\ \E sub \in (IF dirsWalked = 0 THEN {<<>>} ELSE SeqUpTo(DirSegs, MaxDepth) \ {<<>>}) :
          indicators' = ScoreDir(indicators, <<REPOS_DIR, repoName>> \o sub, topEntries)
    /\ dirsWalked' = dirsWalked + 1
    /\ walkPc' = "files"
    /\ UNCHANGED <<repoName, topEntries, filesScanned, archResult,
                   violVars, fileVars, dirVars, depVars, mainVars>>

\* one iteration of the file loop
ScanFile ==
    /\ walkPc = "files"
    /\ filesScanned < MaxFiles
    /\ \E file \in ArchFileInputs : indicators' = ScoreFile(indicators, file)
    /\ filesScanned' = filesScanned + 1
    /\ UNCHANGED <<repoName, topEntries, walkPc, dirsWalked, archResult,
                   violVars, fileVars, dirVars, depVars, mainVars>>

\* the file loop of the directory is exhausted
NextDir ==
    /\ walkPc = "files"
    /\ walkPc' = "dir"
    /\ UNCHANGED <<repoName, topEntries, indicators, dirsWalked, filesScanned, archResult,
                   violVars, fileVars, dirVars, depVars, mainVars>>

\* the walk is exhausted: lines 69-81
Determine ==
    /\ walkPc = "dir"
    /\ dirsWalked > 0
    /\ archResult' = DetermineArchitecture(indicators)
    /\ walkPc' = "done"
    /\ UNCHANGED <<repoName, topEntries, indicators, dirsWalked, filesScanned,
                   violVars, fileVars, dirVars, depVars, mainVars>>

ArchInit ==
    /\ repoName \in RepoNames
    /\ topEntries \in {{"src"}, {"src", "adapter"}}
    /\ indicators = [s \in StyleSet |-> 0]
    /\ walkPc = "dir"
    /\ dirsWalked = 0
    /\ filesScanned = 0
    /\ archResult = NoResult


-----------------------------------------------------------------------------
(* Lines of Java, and the expressions of the analyzer that match them *)

Header == "package com.example.shop; public class OrderService {"
RestControllerClass == "@RestController public class OrderController {"
ServiceClass == "@Service public class OrderService {"
RepositoryInterface == "@Repository public interface OrderStore {"
EntityClass == "@Entity public class Order {"
PostWithBody == "@PostMapping public Order create(@RequestBody Order o) {"
AutowiredRepository == "@Autowired private UserRepository users;"
AutowiredGateway == "@Autowired private OrderGateway gateway;"
Constructor == "public OrderService(UserDao dao, OrderPort port) {"
IfSave == "if (ok) { repo.save(x); }"
ImplementsPort == "class JpaAdapter implements OrderPort {"
AutowiredPortAdapter == "@Autowired private PortAdapter client;"
ConstructorTwoDaos == "public OrderService(UserDao users, OrderDao orders) {"
ConstructorLowerCase == "public OrderService(Orderservice helper) {"

\* the lines the rules of detect_architecture_violations tell apart
RuleFragments == {RepositoryInterface, EntityClass, "@Column", "@Transactional", IfSave,
                  "repo.delete(x);", "items.stream().filter(p)",
                  "import org.springframework.http.*;", ImplementsPort,
                  "catch (Exception e) {", PostWithBody, "@Valid",
                  "new UserService()"}
\* the lines of the files given to analyze_file
FileFragments == {Header, RestControllerClass, ServiceClass, RepositoryInterface,
                  EntityClass, AutowiredRepository, AutowiredGateway,
                  ImplementsPort, "catch (Exception e) {", IfSave}

\* the lines of the contents given to analyze_dependencies
DepFragments == {Header, AutowiredRepository, AutowiredGateway, AutowiredPortAdapter,
                 Constructor, ConstructorTwoDaos, ConstructorLowerCase, PostWithBody}

ControllerAnnRe == {RestControllerClass}                    \* @(RestController|Controller)
ServiceAnnRe == {ServiceClass}                              \* @Service
RepositoryAnnRe == {RepositoryInterface}                     \* @Repository
EntityAnnRe == {EntityClass}                                \* @Entity|@Table
BusinessLogicRe == {IfSave, "items.stream().filter(p)"}     \* lines 187-192
MutatingCallRe == {IfSave, "repo.delete(x);"}               \* \.(save|delete|update)\(
TransactionalRe == {"@Transactional"}                       \* @Transactional
FrameworkImportRe == {"import org.springframework.http.*;"} \* lines 215-219
ImplementsPortRe == {ImplementsPort}                        \* implements\s+\w+Port
UseCaseMarkerRe == {RestControllerClass, RepositoryInterface, EntityClass}
                                                \* @(Controller|RestController|Repository|Entity)
EntityMarkerRe == {EntityClass, "@Column"}                 \* @(Entity|Table|Column|Id)
BroadCatchRe == {"catch (Exception e) {"}                   \* catch\s*\(\s*(Exception|Throwable)\s+
RequestBodyRe == {PostWithBody}                 \* @(PostMapping|PutMapping).*@RequestBody
ValidRe == {"@Valid"}                                       \* @Valid|@Validated
NewDependencyRe == {"new UserService()"}        \* new\s+(.*?)(Service|Repository|Dao|Adapter)\(

\* len(content): the lines joined by newlines
RECURSIVE ContentLen(_)
ContentLen(content) ==
    IF content = <<>> THEN 0
    ELSE Len(Head(content)) + (IF Len(content) > 1 THEN 1 ELSE 0) + ContentLen(Tail(content))

-----------------------------------------------------------------------------
(* STEP 2: detect_layer *)

Layers == {"controller", "service", "repository", "entity", "adapter", "port", "other"}

\* a plausible slip: the path is consulted before the annotations
DetectLayerPathFirst(filepath, content) ==
    LET p == PathWords(filepath)
    IN  IF p \cap {"controller", "web", "rest", "api"} # {} THEN "controller"
        ELSE IF p \cap {"service", "business", "usecase"} # {} THEN "service"
        ELSE IF p \cap {"repository", "dao", "jpa"} # {} THEN "repository"
        ELSE IF p \cap {"entity", "model", "domain", "dto"} # {} THEN "entity"
        ELSE IF "adapter" \in p THEN "adapter"
        ELSE IF "port" \in p THEN "port"
        ELSE IF Search(ControllerAnnRe, content) THEN "controller"
        ELSE IF Search(ServiceAnnRe, content) THEN "service"
        ELSE IF Search(RepositoryAnnRe, content) THEN "repository"
        ELSE IF Search(EntityAnnRe, content) THEN "entity"
        ELSE "other"

DetectLayer(filepath, content) ==
    LET p == PathWords(filepath)
    IN  IF Search(ControllerAnnRe, content) THEN "controller"
        ELSE IF Search(ServiceAnnRe, content) THEN "service"
        ELSE IF Search(RepositoryAnnRe, content) THEN "repository"
        ELSE IF Search(EntityAnnRe, content) THEN "entity"
        ELSE IF p \cap {"controller", "web", "rest", "api"} # {} THEN "controller"
        ELSE IF p \cap {"service", "business", "usecase"} # {} THEN "service"
        ELSE IF p \cap {"repository", "dao", "jpa"} # {} THEN "repository"
        ELSE IF p \cap {"entity", "model", "domain", "dto"} # {} THEN "entity"
        ELSE IF "adapter" \in p THEN "adapter"
        ELSE IF "port" \in p THEN "port"
        ELSE "other"

-----------------------------------------------------------------------------
(* STEP 3: analyze_dependencies *)

Buckets == {"controller", "service", "repository", "entity", "adapter", "port",
            "usecase", "gateway"}
NoDeps == [b \in Buckets |-> 0]

\* the buckets one match of autowired_pattern in the line increments: the keywords
\* found in the lower-cased type name (lines 140-148)
AutowiredBuckets(line) ==
    CASE line = AutowiredRepository -> {"repository"}
      [] line = AutowiredGateway -> {"gateway"}
      [] line = AutowiredPortAdapter -> {"adapter", "port"}
      [] OTHER -> {}

\* the buckets one match of constructor_pattern in the line increments: the
\* capitalised keywords found in the parameter list (lines 151-159)
ConstructorBuckets(line) ==
    CASE line = Constructor -> {"repository", "port"}
      [] line = ConstructorTwoDaos -> {"repository"}
      [] OTHER -> {}

\* re.finditer: one match of either pattern in each line that holds one
AnalyzeDependencies(content, layer) ==
    [b \in Buckets |->
        Cardinality({i \in 1..Len(content) : b \in AutowiredBuckets(content[i])})
            + Cardinality({i \in 1..Len(content) : b \in ConstructorBuckets(content[i])})]

DepsCall ==
    /\ aPc = "call"
    /\ aDeps' = AnalyzeDependencies(aContent, aLayer)
    /\ aPc' = "done"
    /\ UNCHANGED <<aContent, aLayer, archVars, violVars, fileVars, dirVars, mainVars>>

DepsInit ==
    /\ aContent \in SeqUpTo(DepFragments, MaxLen)
    /\ aLayer \in Layers
    /\ aPc = "call"
    /\ aDeps = NoDeps

DepsIdle ==
    /\ aContent = <<>> /\ aLayer = "other" /\ aPc = "idle" /\ aDeps = NoDeps

-----------------------------------------------------------------------------
(* STEP 4: detect_architecture_violations *)

Severities == <<"low", "medium", "high", "critical">>
SevRank(s) == CHOOSE i \in 1..Len(Severities) : Severities[i] = s

StartState == [violations |-> <<>>, severity |-> "low"]

\* violations.append(tag); severity = sev
Assign(st, tag, sev) == [violations |-> Append(st.violations, tag), severity |-> sev]
\* violations.append(tag); if severity == 'low': severity = 'medium'
Floor(st, tag) ==
    [violations |-> Append(st.violations, tag),
     severity |-> IF st.severity = "low" THEN "medium" ELSE st.severity]

\* the condition under which each rule fires
LayerSkipFires(content, layer, deps) == layer = "controller" /\ deps["repository"] > 0
ReversedDependencyFires(content, layer, deps) == layer = "service" /\ deps["controller"] > 0
BusinessLogicFires(content, layer, deps) ==
    layer = "controller" /\ Search(BusinessLogicRe, content)
MissingTransactionFires(content, layer, deps) ==
    /\ layer = "service"
    /\ Search(MutatingCallRe, content)
    /\ ~Search(TransactionalRe, content)
MissingPortFires(content, layer, deps) ==
    layer = "service" /\ deps["repository"] > 0 /\ deps["port"] = 0
FrameworkDependencyFires(content, layer, deps) ==
    layer = "service" /\ Search(FrameworkImportRe, content)
\* a plausible slip: the negation is lost
AdapterWithoutPortFiresInverted(content, layer, deps) ==
    layer = "adapter" /\ Search(ImplementsPortRe, content)
AdapterWithoutPortFires(content, layer, deps) ==
    layer = "adapter" /\ ~Search(ImplementsPortRe, content)
OuterDependsOnInnerFires(content, layer, deps) ==
    layer = "controller" /\ (deps["entity"] > 0 \/ deps["repository"] > 0)
UseCaseCouplingFires(content, layer, deps) ==
    layer = "service" /\ Search(UseCaseMarkerRe, content)
EntityCouplingFires(content, layer, deps) ==
    layer = "entity" /\ Search(EntityMarkerRe, content)
MissingGatewayFires(content, layer, deps) ==
    layer = "service" /\ deps["repository"] > 0 /\ deps["gateway"] = 0
BroadCatchFires(content, layer, deps) == Search(BroadCatchRe, content)
NoValidationFires(content, layer, deps) ==
    /\ layer = "controller"
    /\ Search(RequestBodyRe, content)
    /\ ~Search(ValidRe, content)
TightCouplingFires(content, layer, deps) == Search(NewDependencyRe, content)

\* the rules of each family, in the order of the code
LayeredRules == <<"layer_skip_in_layered", "reversed_dependency_in_layered",
                  "business_logic_in_controller_layered", "missing_transaction_in_layered">>
HexagonalRules == <<"missing_port_adapter_in_hexagonal",
                    "framework_dependency_in_domain_hexagonal",
                    "adapter_without_port_hexagonal">>
\* a plausible slip: the gateway rule is evaluated first
CleanRulesGatewayFirst == <<"missing_gateway_interface_clean", "outer_depends_on_inner_clean",
                            "usecase_framework_coupling_clean",
                            "entity_framework_coupling_clean">>
CleanRules == <<"outer_depends_on_inner_clean", "usecase_framework_coupling_clean",
                "entity_framework_coupling_clean", "missing_gateway_interface_clean">>
CommonRules == <<"broad_catch", "no_validation", "tight_coupling_new_keyword">>

StyleRules(architecture) ==
    IF architecture \in {"layered", "mvc"} THEN LayeredRules
    ELSE IF architecture = "hexagonal" THEN HexagonalRules
    ELSE IF architecture = "clean_architecture" THEN CleanRules
    ELSE <<>>

\* a plausible slip: the common family is part of the known styles' branches only
RulesOfKnownStyles(architecture) ==
    IF StyleRules(architecture) = <<>> THEN <<>> ELSE StyleRules(architecture) \o CommonRules

\* the rules evaluated for a style: its own family, then the common family
RulesOf(architecture) == StyleRules(architecture) \o CommonRules

Fires(tag, content, layer, deps) ==
    CASE tag = "layer_skip_in_layered" -> LayerSkipFires(content, layer, deps)
      [] tag = "reversed_dependency_in_layered" -> ReversedDependencyFires(content, layer, deps)
      [] tag = "business_logic_in_controller_layered" -> BusinessLogicFires(content, layer, deps)
      [] tag = "missing_transaction_in_layered" -> MissingTransactionFires(content, layer, deps)
      [] tag = "missing_port_adapter_in_hexagonal" -> MissingPortFires(content, layer, deps)
      [] tag = "framework_dependency_in_domain_hexagonal" ->
            FrameworkDependencyFires(content, layer, deps)
      [] tag = "adapter_without_port_hexagonal" -> AdapterWithoutPortFires(content, layer, deps)
      [] tag = "outer_depends_on_inner_clean" -> OuterDependsOnInnerFires(content, layer, deps)
      [] tag = "usecase_framework_coupling_clean" -> UseCaseCouplingFires(content, layer, deps)
      [] tag = "entity_framework_coupling_clean" -> EntityCouplingFires(content, layer, deps)
      [] tag = "missing_gateway_interface_clean" -> MissingGatewayFires(content, layer, deps)
      [] tag = "broad_catch" -> BroadCatchFires(content, layer, deps)
      [] tag = "no_validation" -> NoValidationFires(content, layer, deps)
      [] tag = "tight_coupling_new_keyword" -> TightCouplingFires(content, layer, deps)

\* what a rule that fires does to the violation list and the severity
Effect(tag, st) ==
    CASE tag = "layer_skip_in_layered" -> Assign(st, tag, "high")
      [] tag = "reversed_dependency_in_layered" -> Assign(st, tag, "high")
      [] tag = "business_logic_in_controller_layered" -> Assign(st, tag, "medium")
      [] tag = "missing_transaction_in_layered" -> Assign(st, tag, "high")
      [] tag = "missing_port_adapter_in_hexagonal" -> Assign(st, tag, "critical")
      [] tag = "framework_dependency_in_domain_hexagonal" -> Assign(st, tag, "critical")
      [] tag = "adapter_without_port_hexagonal" -> Assign(st, tag, "medium")
      [] tag = "outer_depends_on_inner_clean" -> Assign(st, tag, "critical")
      [] tag = "usecase_framework_coupling_clean" -> Assign(st, tag, "critical")
      [] tag = "entity_framework_coupling_clean" -> Assign(st, tag, "medium")
      [] tag = "missing_gateway_interface_clean" -> Assign(st, tag, "high")
      [] tag = "broad_catch" -> Floor(st, tag)
      [] tag = "no_validation" -> Floor(st, tag)
      [] tag = "tight_coupling_new_keyword" -> Floor(st, tag)

\* one rule evaluation
Evaluate(tag, st, content, layer, deps) ==
    IF Fires(tag, content, layer, deps) THEN Effect(tag, st) ELSE st

\* the (violations, severity) pair at the start and after each rule evaluation
RECURSIVE RuleTrace(_, _, _, _, _)
RuleTrace(rules, st, content, layer, deps) ==
    IF rules = <<>> THEN <<st>>
    ELSE <<st>> \o RuleTrace(Tail(rules), Evaluate(Head(rules), st, content, layer, deps),
                             content, layer, deps)

\* a plausible slip: the empty list is returned as it is
ViolationsResultRaw(st) == st

\* line 274
ViolationsResult(st) ==
    [violations |-> IF st.violations # <<>> THEN st.violations ELSE <<"clean">>,
     severity |-> st.severity]

DetectArchitectureViolations(content, layer, architecture, deps) ==
    LET trace == RuleTrace(RulesOf(architecture), StartState, content, layer, deps)
    IN  ViolationsResult(trace[Len(trace)])

\* line 409
PrimaryAntiPattern(violations) ==
    IF violations # <<>> /\ violations[1] # "clean" THEN violations[1] ELSE "clean"

\* the arguments of the model: every layer, the four styles and one outside them,
\* dependency counts with up to two buckets set
ArchInputs == StyleSet \cup {"microservices"}
DepInputs == {d \in [Buckets -> 0..1] :
                /\ d["service"] = 0 /\ d["adapter"] = 0 /\ d["usecase"] = 0
                /\ Cardinality({b \in Buckets : d[b] > 0}) <= 2}

ViolCall ==
    /\ vPc = "call"
    /\ vTrace' = RuleTrace(RulesOf(vArch), StartState, vContent, vLayer, vDeps)
    /\ vResult' = DetectArchitectureViolations(vContent, vLayer, vArch, vDeps)
    /\ vPrimary' = PrimaryAntiPattern(vResult'.violations)
    /\ vPc' = "done"
    /\ UNCHANGED <<vContent, vLayer, vArch, vDeps, archVars, fileVars, dirVars, depVars, mainVars>>

ViolInit ==
    /\ vContent \in SeqUpTo(RuleFragments, MaxLen)
    /\ vLayer \in Layers
    /\ vArch \in ArchInputs
    /\ vDeps \in DepInputs
    /\ vPc = "call"
    /\ vTrace = <<>>
    /\ vResult = StartState
    /\ vPrimary = "none"

ViolIdle ==
    /\ vContent = <<>> /\ vLayer = "other" /\ vArch = "none" /\ vDeps = NoDeps
    /\ vPc = "idle" /\ vTrace = <<>> /\ vResult = StartState /\ vPrimary = "none"

ArchIdle ==
    /\ repoName = "none" /\ topEntries = {} /\ indicators = [s \in StyleSet |-> 0]
    /\ walkPc = "idle" /\ dirsWalked = 0 /\ filesScanned = 0 /\ archResult = NoResult

-----------------------------------------------------------------------------
(* STEP 5: analyze_code_characteristics *)

BusinessPatternRe == {IfSave, "items.stream().filter(p)"}   \* line 290
DataAccessRe == {IfSave, "repo.delete(x);"}                  \* line 294
HttpHandlingRe == {PostWithBody}                             \* lines 298-299
ValidationRe == {"@Valid"}                      \* @Valid|@Validated|@NotNull|@NotEmpty

AnalyzeCodeCharacteristics(content, layer) ==
    [has_business_logic |-> Search(BusinessPatternRe, content),
     has_data_access |-> Search(DataAccessRe, content),
     has_http_handling |-> Search(HttpHandlingRe, content),
     has_validation |-> Search(ValidationRe, content),
     has_transaction |-> Search(TransactionalRe, content)]

-----------------------------------------------------------------------------
(* STEP 6: analyze_dependency_direction *)

AnalyzeDependencyDirection(layer, deps, architecture) ==
    IF architecture \in {"layered", "mvc"} THEN
        IF layer = "controller" THEN
            IF deps["repository"] > 0 \/ deps["entity"] > 0 THEN "skip_layer"
            ELSE IF deps["service"] > 0 THEN "correct"
            ELSE "unknown"
        ELSE IF layer = "service" THEN
            IF deps["controller"] > 0 THEN "reversed"
            ELSE IF deps["repository"] >= 0 THEN "correct"
            ELSE "unknown"
        ELSE IF layer = "repository" THEN
            IF deps["service"] > 0 \/ deps["controller"] > 0 THEN "reversed" ELSE "correct"
        ELSE "unknown"
    ELSE IF architecture = "hexagonal" THEN
        IF layer = "adapter" THEN
            IF deps["port"] > 0 THEN "correct" ELSE "missing_port"
        ELSE IF layer = "service" THEN
            IF deps["adapter"] > 0 THEN "reversed"
            ELSE IF deps["port"] > 0 THEN "correct"
            ELSE "unknown"
        ELSE "unknown"
    ELSE IF architecture = "clean_architecture" THEN
        IF layer = "controller" THEN
            IF deps["usecase"] > 0 \/ deps["gateway"] > 0 THEN "correct"
            ELSE IF deps["entity"] > 0 \/ deps["repository"] > 0
                 THEN "dependency_rule_violation"
            ELSE "unknown"
        ELSE IF layer = "service" THEN
            IF deps["controller"] > 0 THEN "reversed"
            ELSE IF deps["gateway"] > 0 \/ deps["entity"] > 0 THEN "correct"
            ELSE "unknown"
        ELSE "unknown"
    ELSE "unknown"

\* the arguments of the model: every layer, the four styles and one outside them,
\* every combination of dependency counts up to MaxCount
DirDepInputs == [Buckets -> 0..MaxCount]

DirectionCall ==
    /\ dPc = "call"
    /\ dResult' = AnalyzeDependencyDirection(dLayer, dDeps, dArch)
    /\ dPc' = "done"
    /\ UNCHANGED <<dLayer, dDeps, dArch, archVars, violVars, fileVars, depVars, mainVars>>

DirInit ==
    /\ dLayer \in Layers
    /\ dDeps \in DirDepInputs
    /\ dArch \in ArchInputs
    /\ dPc = "call"
    /\ dResult = "none"

DirIdle ==
    /\ dLayer = "other" /\ dDeps = NoDeps /\ dArch = "none" /\ dPc = "idle" /\ dResult = "none"

-----------------------------------------------------------------------------
(* STEP 7: analyze_file *)

MinContentLen == 50

\* a plausible slip: the label of a clean file is built like every other label
ContextLabelInOnly(primary, architecture, layer) ==
    primary \o "_in_" \o architecture \o "_" \o layer

\* lines 411-414
ContextLabel(primary, architecture, layer) ==
    IF primary = "clean" THEN "clean_" \o architecture \o "_" \o layer
    ELSE primary \o "_in_" \o architecture \o "_" \o layer

\* '|'.join(violations)
RECURSIVE JoinPipe(_)
JoinPipe(tags) ==
    IF tags = <<>> THEN ""
    ELSE IF Len(tags) = 1 THEN tags[1]
    ELSE tags[1] \o "|" \o JoinPipe(Tail(tags))

\* os.path.basename(os.path.dirname(os.path.dirname(filepath))) or "unknown"
RepoField(filepath) == IF Len(filepath) >= 3 THEN filepath[Len(filepath) - 2] ELSE "unknown"

NoRow == [file |-> "none"]

\* round(architecture_confidence, 2), in hundredths: the nearest hundredth, and the
\* even one of two that are equally near (a tie that is no binary fraction, such as
\* 13/40, goes the way its float lies; no value of the model is such a tie)
Round2(c) ==
    LET q == (100 * c.num) \div c.den
        r == (100 * c.num) % c.den
    IN  IF 2 * r > c.den \/ (2 * r = c.den /\ q % 2 = 1) THEN q + 1 ELSE q

\* raw_analyze(content) of radon, when it does not fail: the line count; the value
\* has no attribute functions, methods or classes
RawAnalyze(content) == [loc |-> Len(content)]

\* what cc_visit does with a content: it fails, or returns the complexities of the
\* blocks it found
CcFailure == [ok |-> FALSE, results |-> <<>>]
CcInputs == {CcFailure, [ok |-> TRUE, results |-> <<>>], [ok |-> TRUE, results |-> <<2, 3>>]}

RECURSIVE SumSeq(_)
SumSeq(q) == IF q = <<>> THEN 0 ELSE Head(q) + SumSeq(Tail(q))

\* lines 465-470
safe_cc(cc) ==
    IF cc.ok /\ cc.results # <<>> THEN [num |-> SumSeq(cc.results), den |-> Len(cc.results)]
    ELSE [num |-> 1, den |-> 1]

\* re.findall(r"^import\s", content, re.MULTILINE) and re.findall(r"@[A-Za-z]", content)
ImportLineRe == {"import org.springframework.http.*;"}
AnnotationsIn(line) ==
    CASE line = PostWithBody -> 2
      [] line \in {RestControllerClass, ServiceClass, RepositoryInterface, EntityClass,
                   AutowiredRepository, AutowiredGateway, AutowiredPortAdapter,
                   "@Column", "@Transactional", "@Valid"} -> 1
      [] OTHER -> 0
RECURSIVE CountAnnotations(_)
CountAnnotations(content) ==
    IF content = <<>> THEN 0 ELSE AnnotationsIn(Head(content)) + CountAnnotations(Tail(content))

\* sum(deps.values())
TotalDeps(deps) ==
    deps["controller"] + deps["service"] + deps["repository"] + deps["entity"]
        + deps["adapter"] + deps["port"] + deps["usecase"] + deps["gateway"]

\* lines 389-461: the row of a file of a known layer
RowOf(filepath, content, cc, layer, architecture, confidence) ==
    LET raw == RawAnalyze(content)
        deps == AnalyzeDependencies(content, layer)
        characteristics == AnalyzeCodeCharacteristics(content, layer)
        dep_direction == AnalyzeDependencyDirection(layer, deps, architecture)
        res == DetectArchitectureViolations(content, layer, architecture, deps)
        primary == PrimaryAntiPattern(res.violations)
    IN  [file |-> filepath[Len(filepath)],
         repo |-> RepoField(filepath),
         layer |-> layer,
         architecture_pattern |-> architecture,
         architecture_confidence |-> Round2(confidence),
         loc |-> raw.loc,
         methods |-> 0,
         classes |-> 0,
         avg_cc |-> Round2(safe_cc(cc)),
         imports |-> Cardinality({i \in 1..Len(content) : content[i] \in ImportLineRe}),
         annotations |-> CountAnnotations(content),
         deps |-> deps,
         total_cross_layer_deps |-> TotalDeps(deps),
         characteristics |-> characteristics,
         dependency_direction |-> dep_direction,
         violates_layer_separation |->
            dep_direction \in {"skip_layer", "reversed", "dependency_rule_violation",
                               "missing_port"},
         anti_pattern |-> primary,
         violations |-> res.violations,
         all_violations |-> JoinPipe(res.violations),
         severity |-> res.severity,
         context_specific_label |-> ContextLabel(primary, architecture, layer)]

\* a plausible slip: files of no layer are kept
BuildRowKeepOther(filepath, content, cc, architecture, confidence) ==
    RowOf(filepath, content, cc, DetectLayer(filepath, content), architecture, confidence)

\* lines 383-463, for a file that was read and measured
BuildRow(filepath, content, cc, architecture, confidence) ==
    LET layer == DetectLayer(filepath, content)
    IN  IF layer = "other" THEN NoRow
        ELSE RowOf(filepath, content, cc, layer, architecture, confidence)

\* lines 366-463
AnalyzeFileResult(filepath, readable, rawOk, content, cc, architecture, confidence) ==
    IF ~readable THEN NoRow
    ELSE IF ContentLen(content) < MinContentLen THEN NoRow
    ELSE IF ~rawOk THEN NoRow
    ELSE BuildRow(filepath, content, cc, architecture, confidence)

\* the files of the model: below the directory of a repository, zero to two levels down
FileDirs == {<<>>, <<"src">>, <<"service">>, <<"web", "service">>, <<"adapter">>,
             <<"adapter", "web">>, <<"domain">>, <<"dao">>, <<"port">>}
FilePaths == {<<REPOS_DIR, "shop">> \o d \o <<"Order.java">> : d \in FileDirs}
                \cup {<<REPOS_DIR, "shop", "src", "RestAdapter.java">>,
                      <<REPOS_DIR, "order-service", "src", "Order.java">>}

\* the (style, confidence) pairs of the model
FileArchInputs == {[style |-> "layered", confidence |-> [num |-> 3, den |-> 10]],
                   [style |-> "mvc", confidence |-> [num |-> 1, den |-> 1]],
                   [style |-> "hexagonal", confidence |-> [num |-> 2, den |-> 3]],
                   [style |-> "clean_architecture", confidence |-> [num |-> 3, den |-> 5]]}

AnalyzeFile ==
    /\ fPc = "call"
    /\ fLayer' = IF fReadable /\ ContentLen(fContent) >= MinContentLen /\ fRawOk
                 THEN DetectLayer(fPath, fContent) ELSE "none"
    /\ fRow' = AnalyzeFileResult(fPath, fReadable, fRawOk, fContent, fCc, fArch, fConf)
    /\ fPc' = "done"
    /\ UNCHANGED <<fPath, fReadable, fRawOk, fContent, fArch, fConf, fCc,
                   archVars, violVars, dirVars, depVars, mainVars>>

\* the file is unreadable (no content is read), or read and then raw_analyze fails
\* (cc_visit is not called), or read and measured
FileInit ==
    /\ fPath \in FilePaths
    /\ \E a \in FileArchInputs : fArch = a.style /\ fConf = a.confidence
    /\ \/ fReadable = FALSE /\ fRawOk = FALSE /\ fContent = <<>> /\ fCc = CcFailure
       \/ /\ fReadable = TRUE
          /\ fContent \in SeqUpTo(FileFragments, MaxFileLen)
          /\ \/ fRawOk = FALSE /\ fCc = CcFailure
             \/ fRawOk = TRUE /\ fCc \in CcInputs
    /\ fPc = "call"
    /\ fLayer = "none"
    /\ fRow = NoRow

FileIdle ==
    /\ fPath = <<>> /\ fReadable = FALSE /\ fRawOk = FALSE /\ fContent = <<>>
    /\ fArch = "none" /\ fConf = [num |-> 0, den |-> 1] /\ fCc = CcFailure
    /\ fPc = "idle" /\ fLayer = "none" /\ fRow = NoRow

-----------------------------------------------------------------------------
(* main *)

\* the places of the files below REPOS_DIR, in the order os.walk(REPOS_DIR) meets them
FileSpots == << <<REPOS_DIR, "Stray.java">>,
               <<REPOS_DIR, "shop", "Order.java">>,
               <<REPOS_DIR, "shop", "service", "Order.java">>,
               <<REPOS_DIR, "shop", "src", "service", "Order.java">>,
               <<REPOS_DIR, "order-service", "adapter", "Order.java">>,
               <<REPOS_DIR, "order-service", "src", "notes.txt">> >>

\* file.endswith('.java')
IsJava(name) == name \in {"Order.java", "Stray.java", "RestAdapter.java"}

\* what a readable file of the batch holds: a service class, an adapter class without
\* a marker, or a file of less than MinContentLen characters
MainContents == {<<ServiceClass, Header>>, <<Header, ImplementsPort>>, <<EntityClass>>}

\* a file that cannot be opened; what it holds is never read
Unreadable == [readable |-> FALSE, rawOk |-> FALSE, content |-> <<Header, ImplementsPort>>]
OtherFile == [readable |-> TRUE, rawOk |-> TRUE, content |-> <<>>]
FileChoices(spot) ==
    IF IsJava(FileSpots[spot][Len(FileSpots[spot])])
    THEN {Unreadable} \cup [readable : {TRUE}, rawOk : BOOLEAN, content : MainContents]
    ELSE {OtherFile}
AllFileChoices == UNION {FileChoices(spot) : spot \in 1..Len(FileSpots)}

MinOf(S) == CHOOSE i \in S : \A j \in S : i <= j

RECURSIVE MakeTree(_, _)
MakeTree(S, f) ==
    IF S = {} THEN <<>>
    ELSE LET i == MinOf(S)
         IN  <<[path |-> FileSpots[i], readable |-> f[i].readable, rawOk |-> f[i].rawOk,
                content |-> f[i].content]>> \o MakeTree(S \ {i}, f)

\* the trees of the model: up to MaxBatch of the places hold a file
Trees ==
    UNION {{MakeTree(S, f) : f \in {g \in [S -> AllFileChoices] :
                                        \A i \in S : g[i] \in FileChoices(i)}} :
              S \in {T \in SUBSET (1..Len(FileSpots)) : Cardinality(T) <= MaxBatch}}

\* line 488: the directories of REPOS_DIR
RepoDirs(tree) == {tree[i].path[2] : i \in {j \in 1..Len(tree) : Len(tree[j].path) >= 3}}

\* the files of the tree below the directory of a repository
RECURSIVE FilesBelow(_, _)
FilesBelow(repo_name, tree) ==
    IF tree = <<>> THEN <<>>
    ELSE (IF Len(Head(tree).path) >= 3 /\ Head(tree).path[2] = repo_name
          THEN <<Head(tree)>> ELSE <<>>) \o FilesBelow(repo_name, Tail(tree))

RECURSIVE ScoreDirs(_, _, _)
ScoreDirs(ind, dirs, entries) ==
    IF dirs = {} THEN ind
    ELSE LET d == CHOOSE x \in dirs : TRUE
         IN  ScoreDirs(ScoreDir(ind, d, entries), dirs \ {d}, entries)

RECURSIVE ScoreFiles(_, _)
ScoreFiles(ind, files) ==
    IF files = <<>> THEN ind
    ELSE LET f == Head(files)
             file == [java |-> IsJava(f.path[Len(f.path)]), readable |-> f.readable,
                      content |-> f.content]
         IN  ScoreFiles(ScoreFile(ind, file), Tail(files))

\* detect_architecture_pattern(repo_path) on the tree: the cues add up, so that the
\* directories are scored first and the files after them
DetectArchitecturePattern(repo_name, tree) ==
    LET files == FilesBelow(repo_name, tree)
        dirs == {<<REPOS_DIR, repo_name>>}
                    \cup UNION {{SubSeq(files[i].path, 1, k) : k \in 3..(Len(files[i].path) - 1)} :
                                    i \in 1..Len(files)}
        entries == {files[i].path[3] : i \in 1..Len(files)}
        afterDirs == ScoreDirs([s \in StyleSet |-> 0], dirs, entries)
    IN  DetermineArchitecture(ScoreFiles(afterDirs, files))

\* lines 506-510
RECURSIVE JavaFilesOf(_)
JavaFilesOf(tree) ==
    IF tree = <<>> THEN <<>>
    ELSE (IF IsJava(Head(tree).path[Len(Head(tree).path)]) THEN <<Head(tree)>> ELSE <<>>)
            \o JavaFilesOf(Tail(tree))

\* the default of repo_architectures.get at line 519
MainDefault == [style |-> "layered", confidence |-> [num |-> 1, den |-> 2]]

\* lines 517-519
ArchitectureFor(path, architectures) ==
    LET repo_name == IF Len(path) > 1 THEN path[2] ELSE "unknown"
    IN  IF repo_name \in DOMAIN architectures THEN architectures[repo_name] ELSE MainDefault

\* a plausible slip: the result is collected without the test of line 522
CollectUnchecked(collected, result) == Append(collected, result)

\* lines 522-523
Collect(collected, result) == IF result # NoRow THEN Append(collected, result) ELSE collected

EmptyMap == [r \in {} |-> NoResult]

\* lines 476-488
MainStart ==
    /\ mPc = "start"
    /\ mPc' = IF mExists THEN "detect" ELSE "returned"
    /\ mReposLeft' = IF mExists THEN RepoDirs(mTree) ELSE {}
    /\ UNCHANGED <<mExists, mTree, repo_architectures, java_files, mIdx, rows,
                   archVars, violVars, fileVars, dirVars, depVars>>

\* one iteration of the loop of lines 490-493; os.listdir gives the repositories in
\* any order
DetectRepo ==
    /\ mPc = "detect"
    /\ \E repo_name \in mReposLeft :
          /\ repo_architectures' =
                repo_architectures @@ (repo_name :> DetectArchitecturePattern(repo_name, mTree))
          /\ mReposLeft' = mReposLeft \ {repo_name}
    /\ UNCHANGED <<mExists, mTree, mPc, java_files, mIdx, rows,
                   archVars, violVars, fileVars, dirVars, depVars>>

\* lines 506-514
CollectJavaFiles ==
    /\ mPc = "detect"
    /\ mReposLeft = {}
    /\ java_files' = JavaFilesOf(mTree)
    /\ mIdx' = 1
    /\ rows' = <<>>
    /\ mPc' = "analyze"
    /\ UNCHANGED <<mExists, mTree, mReposLeft, repo_architectures,
                   archVars, violVars, fileVars, dirVars, depVars>>

\* one iteration of the loop of lines 515-523; the complexity of the files of the
\* batch is the default of safe_cc
AnalyzeNext ==
    /\ mPc = "analyze"
    /\ mIdx <= Len(java_files)
    /\ LET f == java_files[mIdx]
           a == ArchitectureFor(f.path, repo_architectures)
           result == AnalyzeFileResult(f.path, f.readable, f.rawOk, f.content, CcFailure,
                                       a.style, a.confidence)
       IN  rows' = Collect(rows, result)
    /\ mIdx' = mIdx + 1
    /\ UNCHANGED <<mExists, mTree, mPc, mReposLeft, repo_architectures, java_files,
                   archVars, violVars, fileVars, dirVars, depVars>>

\* lines 526-531: the loop is exhausted and the rows are written
WriteDataset ==
    /\ mPc = "analyze"
    /\ mIdx > Len(java_files)
    /\ mPc' = "written"
    /\ UNCHANGED <<mExists, mTree, mReposLeft, repo_architectures, java_files, mIdx, rows,
                   archVars, violVars, fileVars, dirVars, depVars>>

MainInit ==
    /\ \/ mExists = TRUE /\ mTree \in Trees
       \/ mExists = FALSE /\ mTree = <<>>
    /\ mPc = "start"
    /\ mReposLeft = {}
    /\ repo_architectures = EmptyMap
    /\ java_files = <<>>
    /\ mIdx = 0
    /\ rows = <<>>

MainIdle ==
    /\ mExists = FALSE /\ mTree = <<>> /\ mPc = "idle" /\ mReposLeft = {}
    /\ repo_architectures = EmptyMap /\ java_files = <<>> /\ mIdx = 0 /\ rows = <<>>

-----------------------------------------------------------------------------
(* Specifications *)

InitArch == ArchInit /\ ViolIdle /\ FileIdle /\ DirIdle /\ DepsIdle /\ MainIdle
InitViol == ArchIdle /\ ViolInit /\ FileIdle /\ DirIdle /\ DepsIdle /\ MainIdle
InitFile == ArchIdle /\ ViolIdle /\ FileInit /\ DirIdle /\ DepsIdle /\ MainIdle
InitDirection == ArchIdle /\ ViolIdle /\ FileIdle /\ DirInit /\ DepsIdle /\ MainIdle
InitDeps == ArchIdle /\ ViolIdle /\ FileIdle /\ DirIdle /\ DepsInit /\ MainIdle
InitMain == ArchIdle /\ ViolIdle /\ FileIdle /\ DirIdle /\ DepsIdle /\ MainInit

NextArch == WalkDir \/ ScanFile \/ NextDir \/ Determine
NextViol == ViolCall
NextFile == AnalyzeFile
NextDirection == DirectionCall
NextDeps == DepsCall
NextMain == MainStart \/ DetectRepo \/ CollectJavaFiles \/ AnalyzeNext \/ WriteDataset

\* detect_architecture_pattern on one repository
SpecArch == InitArch /\ [][NextArch]_vars
\* detect_architecture_violations on one argument list
SpecViol == InitViol /\ [][NextViol]_vars
\* analyze_file on one file
SpecFile == InitFile /\ [][NextFile]_vars
\* analyze_dependency_direction on one argument list
SpecDirection == InitDirection /\ [][NextDirection]_vars
\* analyze_dependencies on one content
SpecDeps == InitDeps /\ [][NextDeps]_vars
\* main on one tree of files
SpecMain == InitMain /\ [][NextMain]_vars

Init == InitArch \/ InitViol \/ InitFile \/ InitDirection \/ InitDeps \/ InitMain
Next == WalkDir \/ ScanFile \/ NextDir \/ Determine \/ ViolCall \/ AnalyzeFile
            \/ DirectionCall \/ DepsCall
            \/ MainStart \/ DetectRepo \/ CollectJavaFiles \/ AnalyzeNext \/ WriteDataset
Spec == Init /\ [][Next]_vars

-----------------------------------------------------------------------------
(* Properties *)

Elems(seq) == {seq[i] : i \in 1..Len(seq)}
MaxScore(ind) == CHOOSE m \in {ind[x] : x \in StyleSet} : \A x \in StyleSet : ind[x] <= m
RuleFired == \E tag \in Elems(RulesOf(vArch)) : Fires(tag, vContent, vLayer, vDeps)

\* C1: the running severity of detect_architecture_violations never decreases from
\* one rule evaluation to the next, so the severity returned is at least the
\* severity after every rule evaluation.
SeverityNeverDecreases ==
    vPc = "done" =>
        /\ \A i \in 1..(Len(vTrace) - 1) :
              SevRank(vTrace[i + 1].severity) >= SevRank(vTrace[i].severity)
        /\ \A i \in 1..Len(vTrace) :
              SevRank(vResult.severity) >= SevRank(vTrace[i].severity)

\* C2: with a nonzero total, detect_architecture_pattern returns a style of maximal
\* score, or mvc in place of a maximal layered when the two differ by at most 2; a
\* repository whose one maximal style is hexagonal or clean_architecture gets it.
ReturnsMaximalStyle ==
    (walkPc = "done" /\ TotalScore(indicators) # 0) =>
        /\ \/ indicators[archResult.style] = MaxScore(indicators)
           \/ /\ archResult.style = "mvc"
              /\ indicators["layered"] = MaxScore(indicators)
              /\ Abs(indicators["layered"] - indicators["mvc"]) <= 2
        /\ \A x \in {"hexagonal", "clean_architecture"} :
              (\A y \in StyleSet \ {x} : indicators[y] < indicators[x])
                  => archResult.style = x

\* C3: a repository in which no cue matched gets style layered at confidence 0.3,
\* and the confidence is no quotient by zero.
ZeroWeightFallback ==
    (walkPc = "done" /\ \A x \in StyleSet : indicators[x] = 0) =>
        /\ archResult.style = "layered"
        /\ archResult.confidence = [num |-> 3, den |-> 10]
ZeroWeightFallbackWitness ==
    /\ walkPc = "done"
    /\ \A x \in StyleSet : indicators[x] = 0
    /\ dirsWalked > 1
    /\ filesScanned > 0
    /\ archResult.style = "layered"

\* C4: every indicator score is a non-negative integer, the confidence returned
\* lies in [0,1], and with a nonzero total it is the largest score over the sum of
\* the four, whichever style is returned.
ConfidenceIsMaxOverTotal ==
    /\ \A x \in StyleSet : indicators[x] \in Nat
    /\ walkPc = "done" =>
          /\ archResult.confidence.den > 0
          /\ 0 <= archResult.confidence.num
          /\ archResult.confidence.num <= archResult.confidence.den
          /\ TotalScore(indicators) # 0 =>
                /\ archResult.confidence.num = MaxScore(indicators)
                /\ archResult.confidence.den = indicators["layered"] + indicators["hexagonal"]
                      + indicators["clean_architecture"] + indicators["mvc"]
ConfidenceIsMaxOverTotalWitness ==
    /\ walkPc = "done"
    /\ archResult.style = "mvc"
    /\ indicators["mvc"] < MaxScore(indicators)
    /\ archResult.confidence.num = MaxScore(indicators)
    /\ archResult.confidence.num < archResult.confidence.den

AnyAnnotationRe == ControllerAnnRe \cup ServiceAnnRe \cup RepositoryAnnRe \cup EntityAnnRe
PathVocabulary == {"controller", "web", "rest", "api", "service", "business", "usecase",
                   "repository", "dao", "jpa", "entity", "model", "domain", "dto",
                   "adapter", "port"}
Unclassifiable ==
    ~Search(AnyAnnotationRe, fContent) /\ PathWords(fPath) \cap PathVocabulary = {}

\* C5: a file with no annotation marker and no path word has layer other and gets no
\* record; every record has one of the six layers.
OtherIsExcluded ==
    fPc = "done" =>
        /\ Unclassifiable =>
              /\ DetectLayer(fPath, fContent) = "other"
              /\ fLayer \in {"other", "none"}
              /\ fRow = NoRow
        /\ fRow # NoRow =>
              fRow.layer \in {"controller", "service", "repository", "entity", "adapter", "port"}
OtherIsExcludedWitness ==
    /\ fPc = "done"
    /\ Unclassifiable
    /\ fLayer = "other"
    /\ fContent # <<>>
    /\ fRow = NoRow

\* the marker and path groups of detect_layer, in their order
AnnotationOrder == <<[layer |-> "controller", re |-> ControllerAnnRe],
                     [layer |-> "service", re |-> ServiceAnnRe],
                     [layer |-> "repository", re |-> RepositoryAnnRe],
                     [layer |-> "entity", re |-> EntityAnnRe]>>
PathOrder == <<[layer |-> "controller", words |-> {"controller", "web", "rest", "api"}],
               [layer |-> "service", words |-> {"service", "business", "usecase"}],
               [layer |-> "repository", words |-> {"repository", "dao", "jpa"}],
               [layer |-> "entity", words |-> {"entity", "model", "domain", "dto"}],
               [layer |-> "adapter", words |-> {"adapter"}],
               [layer |-> "port", words |-> {"port"}]>>
Least(S) == CHOOSE i \in S : \A j \in S : i <= j

\* C6: the layer is that of the first annotation marker found, in the order
\* controller, service, repository, entity, whatever the path holds; without a marker
\* it is that of the first path group found; without either it is other.
AnnotationsBeforePath ==
    fLayer # "none" =>
        LET ann == {i \in 1..Len(AnnotationOrder) : Search(AnnotationOrder[i].re, fContent)}
            pth == {i \in 1..Len(PathOrder) :
                        PathWords(fPath) \cap PathOrder[i].words # {}}
        IN  /\ fLayer \in Layers
            /\ ann # {} => fLayer = AnnotationOrder[Least(ann)].layer
            /\ (ann = {} /\ pth # {}) => fLayer = PathOrder[Least(pth)].layer
            /\ (ann = {} /\ pth = {}) => fLayer = "other"
AnnotationsBeforePathWitness ==
    /\ fPc = "done"
    /\ fRow # NoRow
    /\ Search(ServiceAnnRe, fContent)
    /\ Search(RepositoryAnnRe, fContent)
    /\ "web" \in PathWords(fPath)
    /\ fLayer = "service"

\* C7: the violation list returned is never empty; no rule fired, the list is
\* <<"clean">> and the severity is low are equivalent; when a rule fired the list
\* holds no "clean" and the severity is medium, high or critical; the primary
\* violation is the first element of the list.
CleanIffNothingFired ==
    vPc = "done" =>
        /\ vResult.violations # <<>>
        /\ ~RuleFired <=> vResult.violations = <<"clean">>
        /\ ~RuleFired <=> vResult.severity = "low"
        /\ RuleFired =>
              /\ "clean" \notin Elems(vResult.violations)
              /\ vResult.severity \in {"medium", "high", "critical"}
        /\ vPrimary = vResult.violations[1]
CleanIffNothingFiredWitness ==
    /\ vPc = "done"
    /\ RuleFired
    /\ Len(vResult.violations) > 1
    /\ vPrimary = "missing_transaction_in_layered"
    /\ vResult.severity = "high"

CommonTags == {"broad_catch", "no_validation", "tight_coupling_new_keyword"}
CommonRank(tag) ==
    CASE tag = "broad_catch" -> 1
      [] tag = "no_validation" -> 2
      [] tag = "tight_coupling_new_keyword" -> 3

\* C8: the common family is evaluated for every style, known or not, and every layer,
\* after the family of the style: the common tags follow every other tag, in the
\* order broad_catch, no_validation, tight_coupling_new_keyword, and a common rule
\* that fires has its tag in the list and leaves the severity at medium or above.
CommonFamilyAlwaysRunsLast ==
    vPc = "done" =>
        LET v == vResult.violations
        IN  /\ \A i, j \in 1..Len(v) :
                  (i < j /\ v[i] \in CommonTags) =>
                      (v[j] \in CommonTags /\ CommonRank(v[i]) < CommonRank(v[j]))
            /\ \A tag \in CommonTags :
                  Fires(tag, vContent, vLayer, vDeps) =>
                      (tag \in Elems(v) /\ SevRank(vResult.severity) >= SevRank("medium"))
            /\ (/\ vLayer = "controller"
                /\ Search(BroadCatchRe, vContent)
                /\ Search(RequestBodyRe, vContent)
                /\ ~Search(ValidRe, vContent)) =>
                  {"broad_catch", "no_validation"} \subseteq Elems(v)
CommonFamilyAlwaysRunsLastWitness ==
    /\ vPc = "done"
    /\ vArch = "microservices"
    /\ vLayer = "controller"
    /\ vResult.violations = <<"broad_catch", "no_validation">>
    /\ vResult.severity = "medium"

\* C9: under clean_architecture, the record of every file at a path with 'service'
\* whose dependency counts have repository > 0 and gateway = 0 has primary violation
\* missing_gateway_interface_clean, severity high and the label of that violation.
ServicePathMissingGateway ==
    (/\ fRow # NoRow
     /\ fArch = "clean_architecture"
     /\ "service" \in PathWords(fPath)
     /\ fRow.deps["repository"] > 0
     /\ fRow.deps["gateway"] = 0) =>
        /\ fRow.anti_pattern = "missing_gateway_interface_clean"
        /\ fRow.severity = "high"
        /\ fRow.context_specific_label
              = "missing_gateway_interface_clean_in_clean_architecture_service"

\* C9, amended: under clean_architecture, the record of every file of layer service
\* whose dependency counts have repository > 0 and gateway = 0 lists
\* missing_gateway_interface_clean; without a @Controller, @RestController,
\* @Repository or @Entity marker in the content it is the primary violation, the
\* severity is high and the label is that of the violation; with one, the primary
\* violation is usecase_framework_coupling_clean.
ServiceLayerMissingGateway ==
    (/\ fRow # NoRow
     /\ fArch = "clean_architecture"
     /\ fRow.layer = "service"
     /\ fRow.deps["repository"] > 0
     /\ fRow.deps["gateway"] = 0) =>
        /\ "missing_gateway_interface_clean" \in Elems(fRow.violations)
        /\ ~Search(UseCaseMarkerRe, fContent) =>
              /\ fRow.anti_pattern = "missing_gateway_interface_clean"
              /\ fRow.severity = "high"
              /\ fRow.context_specific_label
                    = "missing_gateway_interface_clean_in_clean_architecture_service"
        /\ Search(UseCaseMarkerRe, fContent) =>
              fRow.anti_pattern = "usecase_framework_coupling_clean"
ServiceLayerMissingGatewayWitness ==
    /\ fRow # NoRow
    /\ fArch = "clean_architecture"
    /\ "service" \in PathWords(fPath)
    /\ fRow.layer = "service"
    /\ fRow.deps["repository"] > 0
    /\ fRow.deps["gateway"] = 0
    /\ fRow.all_violations = "missing_gateway_interface_clean|broad_catch"
    /\ fRow.severity = "high"
    /\ fRow.context_specific_label
          = "missing_gateway_interface_clean_in_clean_architecture_service"

\* C10: under hexagonal, the record of every file at a path with 'adapter' whose
\* content declares no 'implements <Name>Port' has primary violation
\* adapter_without_port_hexagonal and severity medium or, when a rule of higher
\* severity also fires, that higher severity.
AdapterPathWithoutPort ==
    (/\ fRow # NoRow
     /\ fArch = "hexagonal"
     /\ "adapter" \in PathWords(fPath)
     /\ ~Search(ImplementsPortRe, fContent)) =>
        /\ fRow.anti_pattern = "adapter_without_port_hexagonal"
        /\ SevRank(fRow.severity) >= SevRank("medium")

\* C10, amended: under hexagonal, the record of every file of layer adapter whose
\* content declares no 'implements <Name>Port' has primary violation
\* adapter_without_port_hexagonal and severity medium.
AdapterLayerWithoutPort ==
    (/\ fRow # NoRow
     /\ fArch = "hexagonal"
     /\ fRow.layer = "adapter"
     /\ ~Search(ImplementsPortRe, fContent)) =>
        /\ fRow.anti_pattern = "adapter_without_port_hexagonal"
        /\ fRow.severity = "medium"
AdapterLayerWithoutPortWitness ==
    /\ fRow # NoRow
    /\ fArch = "hexagonal"
    /\ "adapter" \in PathWords(fPath)
    /\ fRow.layer = "adapter"
    /\ fRow.all_violations = "adapter_without_port_hexagonal|broad_catch"
    /\ fRow.severity = "medium"

\* C11: under clean_architecture, analyze_dependency_direction returns
\* dependency_rule_violation for every controller whose dependency counts have
\* entity > 0 or repository > 0, whatever its usecase and gateway counts are, and
\* reversed for every service with controller > 0.
CleanDirectionVerdicts ==
    (dPc = "done" /\ dArch = "clean_architecture") =>
        /\ (dLayer = "controller" /\ (dDeps["entity"] > 0 \/ dDeps["repository"] > 0))
              => dResult = "dependency_rule_violation"
        /\ (dLayer = "service" /\ dDeps["controller"] > 0) => dResult = "reversed"

\* C12: under layered or mvc, analyze_dependency_direction returns skip_layer for
\* every controller with repository > 0 or entity > 0, reversed for every service
\* with controller > 0, correct for a controller or service with no cross-layer
\* dependency at all, and unknown only for layers other than controller, service and
\* repository.
LayeredDirectionVerdicts ==
    (dPc = "done" /\ dArch \in {"layered", "mvc"}) =>
        /\ (dLayer = "controller" /\ (dDeps["repository"] > 0 \/ dDeps["entity"] > 0))
              => dResult = "skip_layer"
        /\ (dLayer = "service" /\ dDeps["controller"] > 0) => dResult = "reversed"
        /\ (dLayer \in {"controller", "service"} /\ dDeps = NoDeps) => dResult = "correct"
        /\ dResult = "unknown" => dLayer \notin {"controller", "service", "repository"}

\* the type names the two extraction patterns capture in a line: the type of an
\* @Autowired field, the types of a constructor's parameters
TypeTokens(line) ==
    CASE line = AutowiredRepository -> <<"UserRepository">>
      [] line = AutowiredGateway -> <<"OrderGateway">>
      [] line = AutowiredPortAdapter -> <<"PortAdapter">>
      [] line = Constructor -> <<"UserDao", "OrderPort">>
      [] line = ConstructorTwoDaos -> <<"UserDao", "OrderDao">>
      [] line = ConstructorLowerCase -> <<"Orderservice">>
      [] OTHER -> <<>>
\* the buckets whose keyword (controller, service, repository or dao, adapter, port,
\* usecase, gateway) the type name holds, compared without regard to case
KeywordBuckets(token) ==
    CASE token \in {"UserRepository", "UserDao", "OrderDao"} -> {"repository"}
      [] token = "OrderGateway" -> {"gateway"}
      [] token = "OrderPort" -> {"port"}
      [] token = "PortAdapter" -> {"adapter", "port"}
      [] token = "Orderservice" -> {"service"}
      [] OTHER -> {}
TokensOfBucket(content, b) ==
    {<<i, j>> \in (1..Len(content)) \X (1..2) :
        j <= Len(TypeTokens(content[i])) /\ b \in KeywordBuckets(TypeTokens(content[i])[j])}

\* C17: analyze_dependencies returns all eight buckets with non-negative counts, and
\* the count of a bucket is the number of captured type names (of annotated fields and
\* of constructor parameters) that hold its keyword, compared without regard to case;
\* a type name that holds several keywords counts in each of their buckets.
CountsEveryCapturedToken ==
    aPc = "done" =>
        /\ DOMAIN aDeps = Buckets
        /\ \A b \in Buckets :
              /\ aDeps[b] \in Nat
              /\ aDeps[b] = Cardinality(TokensOfBucket(aContent, b))

\* C14: a readable file of a layer other than 'other' whose metrics extraction fails
\* (raw_analyze or cc_visit) still gets its record, with average complexity 1.0 and
\* counts 0 in place of the failed metrics.
MetricsFailureKeepsFile ==
    (/\ fPc = "done"
     /\ fReadable
     /\ ContentLen(fContent) >= MinContentLen
     /\ DetectLayer(fPath, fContent) # "other"
     /\ (~fRawOk \/ ~fCc.ok)) =>
        /\ fRow # NoRow
        /\ ~fCc.ok => fRow.avg_cc = 100
        /\ ~fRawOk => (fRow.loc = 0 /\ fRow.methods = 0 /\ fRow.classes = 0)

\* C15: the label of every record is '<primary>_in_<style>_<layer>' when the primary
\* violation is not 'clean' and 'clean_<style>_<layer>' when it is, where the primary
\* violation is the first tag of the record's violation list, so that the label is
\* a function of (primary violation, style, layer); a service file under layered on
\* which no rule fires has the list <<"clean">> and the label clean_layered_service.
LabelFromPrimaryStyleLayer ==
    fRow # NoRow =>
        /\ fRow.anti_pattern = fRow.violations[1]
        /\ fRow.anti_pattern # "clean" =>
              fRow.context_specific_label
                  = fRow.anti_pattern \o "_in_" \o fRow.architecture_pattern \o "_" \o fRow.layer
        /\ fRow.anti_pattern = "clean" =>
              fRow.context_specific_label
                  = "clean_" \o fRow.architecture_pattern \o "_" \o fRow.layer
        /\ (/\ fRow.layer = "service"
            /\ fRow.architecture_pattern = "layered"
            /\ \A tag \in Elems(RulesOf("layered")) :
                  ~Fires(tag, fContent, "service", fRow.deps)) =>
              /\ fRow.violations = <<"clean">>
              /\ fRow.context_specific_label = "clean_layered_service"
LabelFromPrimaryStyleLayerWitness ==
    /\ fRow # NoRow
    /\ "service" \in PathWords(fPath)
    /\ ~Search(AnyAnnotationRe, fContent)
    /\ fRow.deps["repository"] > 0
    /\ fRow.layer = "service"
    /\ fRow.architecture_pattern = "layered"
    /\ fRow.all_violations = "clean"
    /\ fRow.context_specific_label = "clean_layered_service"

\* the files of the batch that are readable, of MinContentLen characters or more,
\* measured by raw_analyze and of a layer other than 'other'
IsAccepted(f) ==
    /\ f.readable
    /\ f.rawOk
    /\ ContentLen(f.content) >= MinContentLen
    /\ DetectLayer(f.path, f.content) # "other"
RECURSIVE AcceptedFiles(_)
AcceptedFiles(files) ==
    IF files = <<>> THEN <<>>
    ELSE (IF IsAccepted(Head(files)) THEN <<Head(files)>> ELSE <<>>)
            \o AcceptedFiles(Tail(files))
\* the tree in which every unreadable file is a readable file that holds nothing
EmptiedUnreadable(tree) ==
    [i \in 1..Len(tree) |->
        IF tree[i].readable THEN tree[i] ELSE [tree[i] EXCEPT !.readable = TRUE, !.content = <<>>]]
RecordOf(f) ==
    LET a == ArchitectureFor(f.path, repo_architectures)
    IN  RowOf(f.path, f.content, CcFailure, DetectLayer(f.path, f.content), a.style, a.confidence)

\* C13: whichever files of the tree are unreadable or fail metrics extraction, the
\* batch loop goes on to the next file after each of them and has visited every
\* .java file when the rows are written; a failing file contributes no record, and
\* the rows are the records of the accepted files in traversal order. The style
\* detection gives every repository a style, that of the tree in which the
\* unreadable files hold nothing: an unreadable file is skipped and the scores of
\* the other cues are kept.
BatchSurvivesFailingFiles ==
    /\ mPc = "analyze" => mIdx \in 1..(Len(java_files) + 1)
    /\ mPc \in {"analyze", "written"} =>
          /\ DOMAIN repo_architectures = RepoDirs(mTree)
          /\ \A r \in RepoDirs(mTree) :
                repo_architectures[r] = DetectArchitecturePattern(r, EmptiedUnreadable(mTree))
          /\ java_files = JavaFilesOf(mTree)
          /\ \A k \in 1..Len(rows) : rows[k] # NoRow
          /\ Len(rows) = Len(AcceptedFiles(SubSeq(java_files, 1, mIdx - 1)))
    /\ mPc = "written" =>
          LET accepted == AcceptedFiles(java_files)
          IN  /\ mIdx = Len(java_files) + 1
              /\ Len(rows) = Len(accepted)
              /\ \A k \in 1..Len(rows) : rows[k] = RecordOf(accepted[k])
BatchSurvivesFailingFilesWitness ==
    /\ mPc = "written"
    /\ Len(java_files) = 3
    /\ ~java_files[1].readable
    /\ java_files[2].readable /\ ~java_files[2].rawOk
    /\ IsAccepted(java_files[3])
    /\ Len(rows) = 1
    /\ rows[1].repo = "order-service"
    /\ repo_architectures["shop"].style # "hexagonal"

\* C16: every record carries as repo the name of the repository (the directory
\* directly below REPOS_DIR) that holds its file, at any depth, and the style and
\* the confidence (to two decimals) computed for that repository, so that the
\* records of the files of one repository agree on repo, style and confidence.
RecordsCarryOwningRepository ==
    mPc = "written" =>
        LET accepted == AcceptedFiles(java_files)
            inRepo == {k \in 1..Len(rows) : Len(accepted[k].path) >= 3}
        IN  /\ Len(rows) = Len(accepted)
            /\ \A k \in inRepo :
                  /\ rows[k].repo = accepted[k].path[2]
                  /\ rows[k].architecture_pattern
                        = repo_architectures[accepted[k].path[2]].style
                  /\ rows[k].architecture_confidence
                        = Round2(repo_architectures[accepted[k].path[2]].confidence)
            /\ \A k, l \in inRepo :
                  accepted[k].path[2] = accepted[l].path[2] =>
                      /\ rows[k].repo = rows[l].repo
                      /\ rows[k].architecture_pattern = rows[l].architecture_pattern
                      /\ rows[k].architecture_confidence = rows[l].architecture_confidence

====
